---- MODULE Spec2Model ----
(***************************************************************************)
(* Model of evt::wallet::wallet_manager                                    *)
(* (plugins/wallet_plugin/wallet_manager.cpp).                             *)
(*                                                                         *)
(* The manager owns a registry name -> wallet, an inactivity timeout       *)
(* (duration + absolute expiry) and reads the wall clock at every call.    *)
(* The wallet objects themselves (soft_wallet) live outside this file's    *)
(* source; their lock / unlock / password / load / save behaviour is       *)
(* modelled from the written contract of the wallet capability.            *)
(* The lock on the wallet directory (initialize_lock and the destructor)   *)
(* is modelled over several manager processes, step by step.               *)
(***************************************************************************)
EXTENDS Integers, Sequences, FiniteSets, TLC

\* ------------------------------------------------------------------ bounds
\* The clock runs from 1 up to MaxNow.
MaxNow == 3

\* The clock's range where the timeout is not the subject.
ShortNow == 2

\* The manager processes that share one wallet directory.
NumManagers == 3

\* std::chrono time points are fixed-width signed integers.  The model uses
\* the range -(TimepointMax+1) .. TimepointMax, with wrap-around.
TimepointMax == 5

\* std::chrono::seconds::max(), the duration the manager starts with.
SecondsMax == TimepointMax

\* ------------------------------------------------------------------ inputs
\* Wallet names are strings, modelled as sequences of characters.
NameA == <<"a">>
NameB == <<"b">>
NameEmpty == <<>>
NamePath == <<"a", "/", "b">>
Names == {NameA, NameB, NameEmpty, NamePath}

Passwords == {"p1", "p2"}
Keys == {"k1", "k2"}
Digests == {"d1"}
KeyTypes == {"k1", "K1"}
Durations == {-1, 0, 1, 2, 3, SecondsMax}
ShortDurations == {1}

NoName == <<"-">>
NoArg == "-"

\* ------------------------------------------------- fixed-width arithmetic
\* Signed wrap-around of a time point.
Wrap(x) == ((x + TimepointMax + 1) % (2 * (TimepointMax + 1))) - (TimepointMax + 1)

InRange(x) == x >= -(TimepointMax + 1) /\ x <= TimepointMax

\* ------------------------------------------------------------ name checks
AllowedChars == {"a", "b", ".", "_", "-"}

\* boost::filesystem::path(name).filename(): what follows the last separator
RECURSIVE path_filename(_)
path_filename(name) ==
    IF name = <<>> THEN <<>>
    ELSE IF \E i \in 1..Len(name) : name[i] = "/"
         THEN path_filename(Tail(name))
         ELSE name

valid_filename(name) ==
    IF name = <<>> THEN FALSE
    ELSE IF \E i \in 1..Len(name) : name[i] \notin AllowedChars THEN FALSE
    ELSE path_filename(name) = name

\* ------------------------------------------------------ wallet capability
\* A wallet: its lock state, the password its key material is encrypted
\* under, the keys it holds, and whether it is bound to a wallet file.
Wallet(l, p, k, b) == [locked |-> l, pw |-> p, keys |-> k, backed |-> b]

w_is_locked(w) == w.locked

w_lock(w) == [w EXCEPT !.locked = TRUE]

w_check_password(w, pw) == w.pw = pw

w_unlock(w, pw) == IF w_check_password(w, pw) THEN [w EXCEPT !.locked = FALSE] ELSE w

w_set_password(w, pw) == [w EXCEPT !.pw = pw, !.locked = TRUE]

w_list_public_keys(w) == w.keys

\* a signature names the key that made it and the digest it covers
Sig(k, d) == <<k, d>>

w_try_sign_digest(w, d, k) == IF k \in w.keys THEN {Sig(k, d)} ELSE {}

\* the content written by save_wallet_file / read by load_wallet_file
FileOf(w) == [pw |-> w.pw, keys |-> w.keys]

\* ------------------------------------------------------------- partial maps
Put(f, k, v) == [x \in (DOMAIN f) \cup {k} |-> IF x = k THEN v ELSE f[x]]

Drop(f, k) == [x \in (DOMAIN f) \ {k} |-> f[x]]

EmptyMap == [x \in {} |-> 0]

\* -------------------------------------------------------------------- state
VARIABLES
    wallets,        \* registry: name -> wallet
    timeout,        \* configured duration
    timeout_time,   \* absolute expiry; TimepointMax disables the timeout
    files,          \* the wallet directory: name -> content of <name>.wallet
    now,            \* std::chrono::system_clock::now()
    last,           \* the last call: operation, arguments and outcome
    last_check,     \* history: clock value when the expiry was last set
    issued,         \* history: name -> password returned by create(name)
    order,          \* the registry's iteration order (registration order)
    lock_path,      \* the file dir/"wallet.lock" names: an inode, 0 when absent
    inodes,         \* the number of files created at lock_path so far
    pc,             \* manager process -> its position
    wallet_dir_lock,\* manager process -> inode its file_lock is open on, 0 when null
    flocks,         \* inode -> the process that holds the lock on it, 0 when free
    began           \* history: process -> the processes that held the directory
                    \* lock when its initialize_lock began

dirvars == <<lock_path, inodes, pc, wallet_dir_lock, flocks, began>>

regvars == <<wallets, timeout, timeout_time, files, now, last, last_check, issued, order>>

vars == <<regvars, dirvars>>

ValidNames == {n \in Names : valid_filename(n)}

\* The record of a call: the operation, its arguments, its outcome (res) and
\* result (ret), whether check_timeout ran lock_all (expired), the wallets
\* asked for keys or signatures (asked), the wallets whose lock() was called
\* (locked), and, read before the call, the clock value at which the expiry
\* was last set (since) and the registered names (reg).  The field stale is
\* history: the wallets of an expired session that are unlocked still.
CallRecord(op, name, arg, res, ret, expired, asked, locked, stale) ==
    [op |-> op, name |-> name, arg |-> arg, res |-> res, ret |-> ret,
     expired |-> expired, asked |-> asked, locked |-> locked,
     since |-> last_check, reg |-> DOMAIN wallets, stale |-> stale]

\* a finite, positive timeout is configured and the time since the expiry
\* was last set is at least the duration: the session has expired
SessionExpired ==
    /\ timeout_time # TimepointMax
    /\ timeout > 0
    /\ now - last_check >= timeout

\* The wallets that were unlocked when their session expired and have stayed
\* unlocked through every step since, this one included; a wallet leaves the
\* set when it is locked, dropped, or unlocked or created anew by this call.
StaleAfter(op, name, res) ==
    LET before == last.stale \cup
                    (IF SessionExpired
                     THEN {n \in DOMAIN wallets : ~wallets[n].locked} ELSE {})
        anew == IF res = "ok" /\ op \in {"unlock", "create"} THEN {name} ELSE {}
    IN {n \in before \ anew : n \in DOMAIN wallets' /\ ~wallets'[n].locked}

Call(op, name, arg, res, ret, expired, asked, locked) ==
    CallRecord(op, name, arg, res, ret, expired, asked, locked,
               StaleAfter(op, name, res))

\* wallet files left in the directory by earlier runs
InitFiles(names, pws) == [names -> {"none"} \cup pws]

InitOver(names, pws) ==
    /\ wallets = EmptyMap
    /\ timeout = SecondsMax
    /\ timeout_time = TimepointMax
    /\ \E f \in InitFiles(names, pws) :
          files = [n \in {m \in names : f[m] # "none"} |->
                      [pw |-> f[n], keys |-> {}]]
    /\ now = 1
    /\ last_check = 1
    /\ last = CallRecord("init", NoName, NoArg, "ok", {}, FALSE, {}, {}, {})
    /\ issued = EmptyMap
    /\ order = <<>>

\* ------------------------------------------------------------ the timeout
\* the expiry taken as reached one tick early
TimeoutReachedEarly(n, tt) == n + 1 >= tt

\* line 60: the expiry has been reached
TimeoutReached(n, tt) == n >= tt

\* lines 190-198
lock_all(ws) ==
    [n \in DOMAIN ws |-> IF ~w_is_locked(ws[n]) THEN w_lock(ws[n]) ELSE ws[n]]

\* the wallets whose lock() lock_all calls
lock_all_calls(ws) == {n \in DOMAIN ws : ~w_is_locked(ws[n])}

\* lines 56-65, as a function of the registry and the expiry
check_timeout(ws, tt) ==
    IF tt # TimepointMax
    THEN LET hit == TimeoutReached(now, tt)
         IN [wallets |-> IF hit THEN lock_all(ws) ELSE ws,
             timeout_time |-> Wrap(now + timeout),
             expired |-> hit,
             locked |-> IF hit THEN lock_all_calls(ws) ELSE {},
             checked |-> TRUE]
    ELSE [wallets |-> ws, timeout_time |-> tt, expired |-> FALSE,
          locked |-> {}, checked |-> FALSE]

\* the history variable follows the assignments to timeout_time
Checked(ct) == last_check' = IF ct.checked THEN now ELSE last_check

\* what every call leaves alone or sets through check_timeout
Frame(ct) ==
    /\ timeout_time' = ct.timeout_time
    /\ Checked(ct)
    /\ UNCHANGED <<timeout, now>>
    /\ UNCHANGED dirvars

\* --------------------------------------------------------------- registry
\* wallets.erase(it) followed by wallets.emplace(name, wallet)
SeqWithout(s, x) == SelectSeq(s, LAMBDA y : y # x)

Emplace(ord, name) == Append(SeqWithout(ord, name), name)

\* ----------------------------------------------------------------- create
\* the round trip stopped after its lock()
NewWalletLeftLocked(password) ==
    w_lock(w_unlock(w_set_password(Wallet(TRUE, NoArg, {}, TRUE), password), password))

\* lines 79-87: a new soft_wallet, set_password, unlock, lock, unlock
NewWallet(password) ==
    w_unlock(w_lock(w_unlock(w_set_password(Wallet(TRUE, NoArg, {}, TRUE), password),
                             password)),
             password)

\* the registry consulted instead of the directory
FileExistsUnlessRegistered(name) == name \in DOMAIN files /\ name \notin DOMAIN wallets

\* line 75: the backing file already exists
FileExists(name) == name \in DOMAIN files

\* lines 67-101
create(name, password) ==
    LET ct == check_timeout(wallets, timeout_time)
    IN /\ Frame(ct)
       /\ IF ~valid_filename(name)
          THEN /\ wallets' = ct.wallets
               /\ UNCHANGED <<files, issued, order>>
               /\ last' = Call("create", name, NoArg, "InvalidName", {},
                               ct.expired, {}, ct.locked)
          ELSE IF FileExists(name)
          THEN /\ wallets' = ct.wallets
               /\ UNCHANGED <<files, issued, order>>
               /\ last' = Call("create", name, NoArg, "WalletAlreadyExists", {},
                               ct.expired, {}, ct.locked)
          ELSE LET w == NewWallet(password)
               IN /\ files' = Put(files, name, FileOf(w))
                  /\ wallets' = Put(Drop(ct.wallets, name), name, w)
                  /\ order' = Emplace(order, name)
                  /\ issued' = Put(issued, name, password)
                  /\ last' = Call("create", name, NoArg, "ok", {password},
                                  ct.expired, {}, ct.locked)

\* ------------------------------------------------------------------- open
\* load_wallet_file: the wallet as persisted, locked
Loaded(name) == Wallet(TRUE, files[name].pw, files[name].keys, TRUE)

\* the loaded wallet registered without its lock
open_result_unlocked(ws, ord, tt, name) ==
    LET ct == check_timeout(ws, tt)
    IN IF ~valid_filename(name)
       THEN [ct |-> ct, wallets |-> ct.wallets, order |-> ord, res |-> "InvalidName"]
       ELSE IF ~(name \in DOMAIN files)
       THEN [ct |-> ct, wallets |-> ct.wallets, order |-> ord, res |-> "WalletNonexistent"]
       ELSE [ct |-> ct,
             wallets |-> Put(Drop(ct.wallets, name), name,
                             Wallet(FALSE, files[name].pw, files[name].keys, TRUE)),
             order |-> Emplace(ord, name), res |-> "ok"]

\* the name not validated before the file is looked for
open_result_unvalidated(ws, ord, tt, name) ==
    LET ct == check_timeout(ws, tt)
    IN IF ~(name \in DOMAIN files)
       THEN [ct |-> ct, wallets |-> ct.wallets, order |-> ord, res |-> "WalletNonexistent"]
       ELSE [ct |-> ct,
             wallets |-> Put(Drop(ct.wallets, name), name,
                             Wallet(TRUE, files[name].pw, files[name].keys, TRUE)),
             order |-> Emplace(ord, name), res |-> "ok"]

\* lines 103-124, as a function of the registry, its order and the expiry
open_result(ws, ord, tt, name) ==
    LET ct == check_timeout(ws, tt)
    IN IF ~valid_filename(name)
       THEN [ct |-> ct, wallets |-> ct.wallets, order |-> ord, res |-> "InvalidName"]
       ELSE IF ~FileExists(name)
       THEN [ct |-> ct, wallets |-> ct.wallets, order |-> ord, res |-> "WalletNonexistent"]
       ELSE [ct |-> ct, wallets |-> Put(Drop(ct.wallets, name), name, Loaded(name)),
             order |-> Emplace(ord, name), res |-> "ok"]

open(name) ==
    LET r == open_result(wallets, order, timeout_time, name)
    IN /\ Frame(r.ct)
       /\ wallets' = r.wallets
       /\ order' = r.order
       /\ UNCHANGED <<files, issued>>
       /\ last' = Call("open", name, NoArg, r.res, {}, r.ct.expired, {}, r.ct.locked)

\* ----------------------------------------------------------- list_wallets
\* lines 126-139: each name with its unlocked marker
list_wallets ==
    LET ct == check_timeout(wallets, timeout_time)
    IN /\ Frame(ct)
       /\ wallets' = ct.wallets
       /\ UNCHANGED <<files, issued, order>>
       /\ last' = Call("list_wallets", NoName, NoArg, "ok",
                       {<<n, ~w_is_locked(ct.wallets[n])>> : n \in DOMAIN ct.wallets},
                       ct.expired, {}, ct.locked)

\* -------------------------------------------------------------- list_keys
\* lines 141-152
list_keys(name, pw) ==
    LET ct == check_timeout(wallets, timeout_time)
        fail(res) == Call("list_keys", name, pw, res, {}, ct.expired, {}, ct.locked)
    IN /\ Frame(ct)
       /\ wallets' = ct.wallets
       /\ UNCHANGED <<files, issued, order>>
       /\ IF name \notin DOMAIN ct.wallets
          THEN last' = fail("WalletNonexistent")
          ELSE IF w_is_locked(ct.wallets[name])
          THEN last' = fail("WalletLocked")
          ELSE IF ~w_check_password(ct.wallets[name], pw)
          THEN last' = fail("BadPassword")
          ELSE last' = Call("list_keys", name, pw, "ok", ct.wallets[name].keys,
                            ct.expired, {name}, ct.locked)

\* ------------------------------------------------ get_public_keys and co.
\* every registered wallet read, locked or not
ConsultedAll(ws) == DOMAIN ws

\* line 161 / line 178: the wallets whose keys are read
Consulted(ws) == {n \in DOMAIN ws : ~w_is_locked(ws[n])}

\* the flag accumulated with "or" instead of "and"
is_any_wallet_locked(ws) == \E n \in DOMAIN ws : w_is_locked(ws[n])

\* lines 159-165: is_all_wallet_locked after the loop
is_all_wallet_locked(ws) == \A n \in DOMAIN ws : w_is_locked(ws[n])

\* lines 158-165: the merged result
MergedKeys(ws) == UNION {w_list_public_keys(ws[n]) : n \in Consulted(ws)}

\* the final assertion on is_all_wallet_locked left out
get_public_keys_res_unchecked(ws) ==
    IF DOMAIN ws = {} THEN "NoWalletsAvailable" ELSE "ok"

\* lines 154-168: the outcome of get_public_keys on a registry
get_public_keys_res(ws) ==
    IF DOMAIN ws = {} THEN "NoWalletsAvailable"
    ELSE IF is_all_wallet_locked(ws) THEN "AllWalletsLocked"
    ELSE "ok"

get_public_keys ==
    LET ct == check_timeout(wallets, timeout_time)
        res == get_public_keys_res(ct.wallets)
    IN /\ Frame(ct)
       /\ wallets' = ct.wallets
       /\ UNCHANGED <<files, issued, order>>
       /\ last' = Call("get_public_keys", NoName, NoArg, res,
                       IF res = "ok" THEN MergedKeys(ct.wallets) ELSE {},
                       ct.expired,
                       IF res = "NoWalletsAvailable" THEN {} ELSE Consulted(ct.wallets),
                       ct.locked)

\* lines 170-188
get_my_signatures(chain_id) ==
    LET ct == check_timeout(wallets, timeout_time)
        res == get_public_keys_res(ct.wallets)
    IN /\ Frame(ct)
       /\ wallets' = ct.wallets
       /\ UNCHANGED <<files, issued, order>>
       /\ last' = Call("get_my_signatures", NoName, chain_id, res,
                       IF res = "ok"
                       THEN {Sig(k, chain_id) : k \in MergedKeys(ct.wallets)}
                       ELSE {},
                       ct.expired,
                       IF res = "NoWalletsAvailable" THEN {} ELSE Consulted(ct.wallets),
                       ct.locked)

\* --------------------------------------------------------------- lock_all
lock_all_op ==
    /\ wallets' = lock_all(wallets)
    /\ UNCHANGED <<timeout, timeout_time, files, now, last_check, issued, order>>
    /\ UNCHANGED dirvars
    /\ last' = Call("lock_all", NoName, NoArg, "ok", {}, FALSE, {},
                    lock_all_calls(wallets))

\* ------------------------------------------------------------------- lock
\* lock() passed on to the wallet whatever its state
lock_delegates_always(w) == TRUE

\* lines 207-210: lock() is passed on to the wallet only when it is unlocked
lock_delegates(w) == ~w_is_locked(w)

\* lines 200-211
lock(name) ==
    LET ct == check_timeout(wallets, timeout_time)
    IN /\ Frame(ct)
       /\ UNCHANGED <<files, issued, order>>
       /\ IF name \notin DOMAIN ct.wallets
          THEN /\ wallets' = ct.wallets
               /\ last' = Call("lock", name, NoArg, "WalletNonexistent", {},
                               ct.expired, {}, ct.locked)
          ELSE IF ~lock_delegates(ct.wallets[name])
          THEN /\ wallets' = ct.wallets
               /\ last' = Call("lock", name, NoArg, "ok", {}, ct.expired, {}, ct.locked)
          ELSE /\ wallets' = [ct.wallets EXCEPT ![name] = w_lock(@)]
               /\ last' = Call("lock", name, NoArg, "ok", {}, ct.expired, {},
                               ct.locked \cup {name})

\* ----------------------------------------------------------------- unlock
\* lines 213-225
unlock(name, password) ==
    LET ct == check_timeout(wallets, timeout_time)
        auto == name \notin DOMAIN ct.wallets
        r == IF auto
             THEN open_result(ct.wallets, order, ct.timeout_time, name)
             ELSE [ct |-> ct, wallets |-> ct.wallets, order |-> order, res |-> "ok"]
        expired == ct.expired \/ r.ct.expired
        locked == ct.locked \cup r.ct.locked
        done(res) == Call("unlock", name, password, res, {}, expired, {}, locked)
    IN /\ timeout_time' = r.ct.timeout_time
       /\ last_check' = IF ct.checked \/ r.ct.checked THEN now ELSE last_check
       /\ UNCHANGED <<timeout, now, files, issued>>
       /\ UNCHANGED dirvars
       /\ order' = r.order
       /\ IF r.res # "ok"
          THEN /\ wallets' = r.wallets
               /\ last' = done(r.res)
          ELSE IF ~w_is_locked(r.wallets[name])
          THEN /\ wallets' = r.wallets
               /\ last' = done("WalletAlreadyUnlocked")
          ELSE IF ~w_check_password(r.wallets[name], password)
          THEN /\ wallets' = r.wallets
               /\ last' = done("BadPassword")
          ELSE /\ wallets' = [r.wallets EXCEPT ![name] = w_unlock(@, password)]
               /\ last' = done("ok")

\* ------------------------------------------------------------- key changes
\* a key change is written through to the wallet's file when it has one
Saved(name, w) == IF w.backed THEN Put(files, name, FileOf(w)) ELSE files

\* an import_key that does not ask whether the wallet is locked
import_key_unguarded(name, wif_key) ==
    LET ct == check_timeout(wallets, timeout_time)
        fail(res) == Call("import_key", name, wif_key, res, {}, ct.expired, {}, ct.locked)
    IN /\ Frame(ct)
       /\ UNCHANGED <<issued, order>>
       /\ IF name \notin DOMAIN ct.wallets
          THEN /\ wallets' = ct.wallets
               /\ UNCHANGED files
               /\ last' = fail("WalletNonexistent")
          ELSE LET w == [ct.wallets[name] EXCEPT !.keys = @ \cup {wif_key}]
               IN /\ wallets' = [ct.wallets EXCEPT ![name] = w]
                  /\ files' = Saved(name, w)
                  /\ last' = fail("ok")

\* lines 227-238
import_key(name, wif_key) ==
    LET ct == check_timeout(wallets, timeout_time)
        fail(res) == Call("import_key", name, wif_key, res, {}, ct.expired, {}, ct.locked)
    IN /\ Frame(ct)
       /\ UNCHANGED <<issued, order>>
       /\ IF name \notin DOMAIN ct.wallets
          THEN /\ wallets' = ct.wallets
               /\ UNCHANGED files
               /\ last' = fail("WalletNonexistent")
          ELSE IF w_is_locked(ct.wallets[name])
          THEN /\ wallets' = ct.wallets
               /\ UNCHANGED files
               /\ last' = fail("WalletLocked")
          ELSE LET w == [ct.wallets[name] EXCEPT !.keys = @ \cup {wif_key}]
               IN /\ wallets' = [ct.wallets EXCEPT ![name] = w]
                  /\ files' = Saved(name, w)
                  /\ last' = fail("ok")

\* lines 240-252
remove_key(name, password, key) ==
    LET ct == check_timeout(wallets, timeout_time)
        fail(res) == Call("remove_key", name, <<password, key>>, res, {},
                          ct.expired, {}, ct.locked)
    IN /\ Frame(ct)
       /\ UNCHANGED <<issued, order>>
       /\ IF name \notin DOMAIN ct.wallets
          THEN /\ wallets' = ct.wallets
               /\ UNCHANGED files
               /\ last' = fail("WalletNonexistent")
          ELSE IF w_is_locked(ct.wallets[name])
          THEN /\ wallets' = ct.wallets
               /\ UNCHANGED files
               /\ last' = fail("WalletLocked")
          ELSE IF ~w_check_password(ct.wallets[name], password)
          THEN /\ wallets' = ct.wallets
               /\ UNCHANGED files
               /\ last' = fail("BadPassword")
          ELSE LET w == [ct.wallets[name] EXCEPT !.keys = @ \ {key}]
               IN /\ wallets' = [ct.wallets EXCEPT ![name] = w]
                  /\ files' = Saved(name, w)
                  /\ last' = fail("ok")

\* line 265: boost::to_upper_copy
to_upper(key_type) == IF key_type = "k1" THEN "K1" ELSE key_type

\* lines 254-267; new_key is the key the wallet generates
create_key(name, key_type, new_key) ==
    LET ct == check_timeout(wallets, timeout_time)
        done(res, ret) == Call("create_key", name, to_upper(key_type), res, ret,
                               ct.expired, {}, ct.locked)
    IN /\ Frame(ct)
       /\ UNCHANGED <<issued, order>>
       /\ IF name \notin DOMAIN ct.wallets
          THEN /\ wallets' = ct.wallets
               /\ UNCHANGED files
               /\ last' = done("WalletNonexistent", {})
          ELSE IF w_is_locked(ct.wallets[name])
          THEN /\ wallets' = ct.wallets
               /\ UNCHANGED files
               /\ last' = done("WalletLocked", {})
          ELSE LET w == [ct.wallets[name] EXCEPT !.keys = @ \cup {new_key}]
               IN /\ wallets' = [ct.wallets EXCEPT ![name] = w]
                  /\ files' = Saved(name, w)
                  /\ last' = done("ok", {new_key})

\* ---------------------------------------------------------------- signing
\* positions, in scan order, of the unlocked wallets that sign for key
Hits(ws, ord, d, key) ==
    {i \in 1..Len(ord) :
        ~w_is_locked(ws[ord[i]]) /\ w_try_sign_digest(ws[ord[i]], d, key) # {}}

\* a scan that goes on after a match and keeps the last signature
LeastLast(S) == CHOOSE i \in S : \A j \in S : i >= j

\* lines 302-304: the first match ends the scan
Least(S) == CHOOSE i \in S : \A j \in S : i <= j

\* the wallets whose try_sign_digest the scan calls
Scanned(ws, ord, d, key) ==
    LET h == Hits(ws, ord, d, key)
        upto == IF h = {} THEN Len(ord) ELSE Least(h)
    IN {ord[i] : i \in {j \in 1..upto : ~w_is_locked(ws[ord[j]])}}

\* lines 294-311
sign_digest(digest, key) ==
    LET ct == check_timeout(wallets, timeout_time)
        h == Hits(ct.wallets, order, digest, key)
    IN /\ Frame(ct)
       /\ wallets' = ct.wallets
       /\ UNCHANGED <<files, issued, order>>
       /\ last' = Call("sign_digest", NoName, <<digest, key>>,
                       IF h = {} THEN "MissingPublicKey" ELSE "ok",
                       IF h = {} THEN {}
                       ELSE w_try_sign_digest(ct.wallets[order[Least(h)]], digest, key),
                       ct.expired, Scanned(ct.wallets, order, digest, key), ct.locked)

\* flat_set<public_key_type> iterates in key order
KeyOrder == <<"k1", "k2">>

KeySeq(keys) == SelectSeq(KeyOrder, LAMBDA k : k \in keys)

\* stxn.sig_digest(id)
sig_digest(id) == <<"tx", id>>

\* a loop that passes over a key no unlocked wallet signs for
RECURSIVE ProcessedSkipping(_, _, _, _)
ProcessedSkipping(ws, ord, d, ks) ==
    IF ks = <<>> THEN <<>>
    ELSE IF Hits(ws, ord, d, Head(ks)) = {} THEN ProcessedSkipping(ws, ord, d, Tail(ks))
    ELSE <<Head(ks)>> \o ProcessedSkipping(ws, ord, d, Tail(ks))

\* lines 274-289: the requested keys up to and including the first one that
\* no unlocked wallet signs for
RECURSIVE Processed(_, _, _, _)
Processed(ws, ord, d, ks) ==
    IF ks = <<>> THEN <<>>
    ELSE IF Hits(ws, ord, d, Head(ks)) = {} THEN <<Head(ks)>>
    ELSE <<Head(ks)>> \o Processed(ws, ord, d, Tail(ks))

\* lines 269-292; a successful call returns the signed copy, a failing one
\* throws wallet_missing_pub_key_exception, which names a key (ret)
sign_transaction(txn, keys, id) ==
    LET ct == check_timeout(wallets, timeout_time)
        d == sig_digest(id)
        ks == Processed(ct.wallets, order, d, KeySeq(keys))
        missing == {i \in 1..Len(ks) : Hits(ct.wallets, order, d, ks[i]) = {}}
        sigs == [i \in 1..Len(ks) |-> Sig(ks[i], d)]
    IN /\ Frame(ct)
       /\ wallets' = ct.wallets
       /\ UNCHANGED <<files, issued, order>>
       /\ last' = Call("sign_transaction", NoName,
                       [txn |-> txn, keys |-> keys, id |-> id],
                       IF missing = {} THEN "ok" ELSE "MissingPublicKey",
                       IF missing = {} THEN txn \o sigs ELSE {ks[Len(ks)]},
                       ct.expired,
                       UNION {Scanned(ct.wallets, order, d, ks[i]) : i \in 1..Len(ks)},
                       ct.locked)

\* ------------------------------------------------------ own_and_use_wallet
\* lines 313-319
own_and_use_wallet(name, wallet) ==
    /\ UNCHANGED <<timeout, timeout_time, files, now, last_check, issued>>
    /\ UNCHANGED dirvars
    /\ IF name \in DOMAIN wallets
       THEN /\ UNCHANGED <<wallets, order>>
            /\ last' = Call("own_and_use_wallet", name, NoArg,
                            "DuplicateWalletRegistration", {}, FALSE, {}, {})
       ELSE /\ wallets' = Put(wallets, name, wallet)
            /\ order' = Append(order, name)
            /\ last' = Call("own_and_use_wallet", name, NoArg, "ok", {}, FALSE, {}, {})

\* ------------------------------------------------------------- set_timeout
\* an assertion that only asks for a positive expiry
TimeoutValidPositive(tt, n) == tt > 0

\* line 52: the assertion on the new expiry
TimeoutValid(tt, n) == tt >= n /\ tt > 0

\* lines 47-54
set_timeout(t) ==
    /\ timeout' = t
    /\ timeout_time' = Wrap(now + t)
    /\ last_check' = now
    /\ UNCHANGED <<wallets, files, now, issued, order>>
    /\ UNCHANGED dirvars
    /\ last' = Call("set_timeout", NoName, t,
                    IF TimeoutValid(Wrap(now + t), now) THEN "ok" ELSE "TimeoutOverflow",
                    {}, FALSE, {}, {})

\* ---------------------------------------------------------- directory lock
\* Several manager processes work on the same directory.  Each process runs
\* initialize_lock once and is torn down once; the steps that reach the file
\* system are the units that interleave.  A lock taken through
\* boost::interprocess::file_lock belongs to the file the handle was opened
\* on, not to the path.
Managers == 1..NumManagers

\* at most one file is created at the start and one after each removal
Inodes == 1..(NumManagers + 1)

DirInit ==
    /\ lock_path = 0
    /\ inodes = 0
    /\ pc = [m \in Managers |-> "new"]
    /\ wallet_dir_lock = [m \in Managers |-> 0]
    /\ flocks = [i \in Inodes |-> 0]
    /\ began = [m \in Managers |-> {}]

\* the process has its lock handle and the lock on the handle's file
HoldsLock(m) == wallet_dir_lock[m] # 0 /\ flocks[wallet_dir_lock[m]] = m

\* the processes that completed initialize_lock and are not being torn down
Ready == {m \in Managers : pc[m] = "ready"}

\* lines 325-327: std::ofstream x(lock_path) creates the file or truncates it
CreateMarker(m) ==
    /\ UNCHANGED regvars
    /\ pc[m] = "new"
    /\ IF lock_path = 0
       THEN lock_path' = inodes + 1 /\ inodes' = inodes + 1
       ELSE UNCHANGED <<lock_path, inodes>>
    /\ pc' = [pc EXCEPT ![m] = "created"]
    /\ began' = [began EXCEPT ![m] = Ready]
    /\ UNCHANGED <<wallet_dir_lock, flocks>>

\* line 328: the stream could not be opened
MarkerUnwritable(m) ==
    /\ UNCHANGED regvars
    /\ pc[m] = "new"
    /\ pc' = [pc EXCEPT ![m] = "failed"]
    /\ began' = [began EXCEPT ![m] = Ready]
    /\ UNCHANGED <<lock_path, inodes, wallet_dir_lock, flocks>>

\* line 330: file_lock(lock_path) opens the file the path names now; the
\* constructor throws when there is none and the handle stays null
OpenHandle(m) ==
    /\ UNCHANGED regvars
    /\ pc[m] = "created"
    /\ IF lock_path = 0
       THEN /\ pc' = [pc EXCEPT ![m] = "failed"]
            /\ UNCHANGED wallet_dir_lock
       ELSE /\ pc' = [pc EXCEPT ![m] = "opened"]
            /\ wallet_dir_lock' = [wallet_dir_lock EXCEPT ![m] = lock_path]
    /\ UNCHANGED <<lock_path, inodes, flocks, began>>

\* line 331: try_lock() succeeds when no process holds the lock on the file
TryLockFree(m) == flocks[wallet_dir_lock[m]] = 0

\* lines 331-334: one try_lock; on failure the handle is reset
TryLock(m) ==
    /\ UNCHANGED regvars
    /\ pc[m] = "opened"
    /\ IF TryLockFree(m)
       THEN /\ flocks' = [flocks EXCEPT ![wallet_dir_lock[m]] = m]
            /\ pc' = [pc EXCEPT ![m] = "ready"]
            /\ UNCHANGED wallet_dir_lock
       ELSE /\ wallet_dir_lock' = [wallet_dir_lock EXCEPT ![m] = 0]
            /\ pc' = [pc EXCEPT ![m] = "failed"]
            /\ UNCHANGED flocks
    /\ UNCHANGED <<lock_path, inodes, began>>

\* lines 40-45: the destructor's body removes the file at lock_path when the
\* handle is not null
Destroy(m) ==
    /\ UNCHANGED regvars
    /\ pc[m] \in {"ready", "failed"}
    /\ lock_path' = IF wallet_dir_lock[m] # 0 THEN 0 ELSE lock_path
    /\ pc' = [pc EXCEPT ![m] = "closing"]
    /\ UNCHANGED <<inodes, wallet_dir_lock, flocks, began>>

\* after the destructor's body the member wallet_dir_lock is destroyed, which
\* closes the handle and gives up the lock
ReleaseHandle(m) ==
    /\ UNCHANGED regvars
    /\ pc[m] = "closing"
    /\ flocks' = IF HoldsLock(m) THEN [flocks EXCEPT ![wallet_dir_lock[m]] = 0] ELSE flocks
    /\ wallet_dir_lock' = [wallet_dir_lock EXCEPT ![m] = 0]
    /\ pc' = [pc EXCEPT ![m] = "gone"]
    /\ UNCHANGED <<lock_path, inodes, began>>

\* ------------------------------------------------------------ environment
\* the clock advances
Tick(max) ==
    /\ now < max
    /\ now' = now + 1
    /\ UNCHANGED <<wallets, timeout, timeout_time, files, last_check, issued, order>>
    /\ UNCHANGED dirvars
    /\ last' = Call("tick", NoName, NoArg, "ok", {}, FALSE, {}, {})

\* a wallet file is removed while the manager is running
RemoveFile(name) ==
    /\ name \in DOMAIN files
    /\ files' = Drop(files, name)
    /\ UNCHANGED <<wallets, timeout, timeout_time, now, last_check, issued, order>>
    /\ UNCHANGED dirvars
    /\ last' = Call("remove_file", name, NoArg, "ok", {}, FALSE, {}, {})

\* wallets handed over by own_and_use_wallet
OwnWallets == {Wallet(l, "p2", {"k1"}, FALSE) : l \in BOOLEAN}

\* a transaction that carries a signature already
OldTxns == {<<Sig("k0", "old")>>}

\* every call of the manager and every step of its environment, with the
\* calls' arguments drawn from the given sets
NextOver(names, good, own, pws, keys, durs, max) ==
    \/ \E name \in names, password \in pws : create(name, password)
    \/ \E name \in names : open(name)
    \/ list_wallets
    \/ \E name \in good, pw \in pws : list_keys(name, pw)
    \/ get_public_keys
    \/ \E id \in Digests : get_my_signatures(id)
    \/ lock_all_op
    \/ \E name \in good : lock(name)
    \/ \E name \in names \cup good, password \in pws : unlock(name, password)
    \/ \E name \in good, key \in keys : import_key(name, key)
    \/ \E name \in good, password \in pws, key \in keys :
          remove_key(name, password, key)
    \/ \E name \in good, kt \in KeyTypes, key \in keys :
          /\ name \in DOMAIN wallets => key \notin wallets[name].keys
          /\ create_key(name, kt, key)
    \/ \E txn \in OldTxns, ks \in SUBSET keys, id \in Digests :
          sign_transaction(txn, ks, id)
    \/ \E d \in Digests, key \in keys : sign_digest(d, key)
    \/ \E name \in own, w \in OwnWallets : own_and_use_wallet(name, w)
    \/ \E t \in durs : set_timeout(t)
    \/ Tick(max)
    \/ \E name \in good : RemoveFile(name)

\* The registry and the passwords in full, over a short stretch of time.
Init == DirInit /\ InitOver({NameA}, Passwords)

Next == NextOver(Names \ {NameB}, ValidNames, {NameB}, Passwords, {"k1"}, ShortDurations, ShortNow)

Spec == Init /\ [][Next]_vars

\* The timeout in full, over a small registry.
InitTimeout == DirInit /\ InitOver({NameA}, {"p2"})

NextTimeout == NextOver({NameA}, ValidNames, {NameB}, {"p2"}, {"k1"}, Durations, MaxNow)

SpecTimeout == InitTimeout /\ [][NextTimeout]_vars

\* Signing with two keys, over one password and a short stretch of time.
InitSign == DirInit /\ InitOver({NameA}, {"p1"})

NextSign == NextOver({NameA}, ValidNames, {NameB}, {"p1"}, Keys, ShortDurations, ShortNow)

SpecSign == InitSign /\ [][NextSign]_vars

\* The directory lock, with the registry left alone.
InitLock == DirInit /\ InitOver({}, {})

NextLock ==
    \E m \in Managers :
        \/ CreateMarker(m)
        \/ MarkerUnwritable(m)
        \/ OpenHandle(m)
        \/ TryLock(m)
        \/ Destroy(m)
        \/ ReleaseHandle(m)

SpecLock == InitLock /\ [][NextLock]_vars

\* ================================================================== claims
\* the environment's steps, which are not calls of the manager
EnvOps == {"init", "tick", "remove_file"}

IsCall(c) == c.op \notin EnvOps

\* the call c locks wallet n as its own work: lock(n), lock_all, or an
\* open(n) that replaces the entry by the persisted, locked wallet
LocksExplicitly(c, n) ==
    \/ c.op = "lock_all"
    \/ c.op = "lock" /\ c.name = n
    \/ c.op = "open" /\ c.name = n /\ c.res = "ok"

\* the wallets unlocked before a step are unlocked after it, those the call
\* itself locks apart
StaysUnlocked ==
    \A n \in DOMAIN wallets :
        (~wallets[n].locked /\ ~LocksExplicitly(last', n))
            => (n \in DOMAIN wallets' /\ ~wallets'[n].locked)

\* C1 as stated: a call made at most the configured duration d after the clock
\* value at which the expiry was last set (gap <= d, equality included) never
\* locks an unlocked wallet through check_timeout.
C1_GapAtMostDuration ==
    [][(IsCall(last') /\ timeout > 0 /\ InRange(now + timeout)
            /\ now - last_check <= timeout)
          => StaysUnlocked]_vars

\* C1 amended: a call made strictly less than the configured duration d after
\* the call that last set the expiry (set_timeout or a call that runs
\* check_timeout), with now + d inside the time point range, leaves every
\* unlocked wallet unlocked unless the call itself locks it.
C1_SlidingWindow ==
    [][(IsCall(last') /\ InRange(now + timeout) /\ now - last_check < timeout)
          => StaysUnlocked]_vars

\* a checked call made one tick after the previous one, inside a window of
\* two or more, with an unlocked wallet that it left unlocked
C1_Witness ==
    /\ last.op = "list_wallets"
    /\ timeout_time # TimepointMax
    /\ now - last.since >= 1
    /\ now - last.since < timeout
    /\ InRange(now + timeout)
    /\ ~last.expired
    /\ \E n \in DOMAIN wallets : ~wallets[n].locked

\* C2 as stated: with a finite timeout d > 0 in force, a call made at least d
\* after the expiry was last set locks, through lock_all, every wallet that
\* was unlocked before the call.
C2_GapLocksAll ==
    [][(IsCall(last') /\ timeout_time # TimepointMax /\ timeout > 0
            /\ now - last_check >= timeout)
          => \A n \in DOMAIN wallets : ~wallets[n].locked => n \in last'.locked]_vars

\* the operations that return key material or signatures
KeyOps == {"list_keys", "get_public_keys", "get_my_signatures",
           "sign_transaction", "sign_digest"}

UnlockedNames == {n \in DOMAIN wallets : ~wallets[n].locked}

UnlockedKeys == UNION {wallets[n].keys : n \in UnlockedNames}

\* the keys a successful key operation returned or signed with
KeysUsed(c) ==
    IF c.op \in {"list_keys", "get_public_keys"} THEN c.ret
    ELSE IF c.op \in {"get_my_signatures", "sign_digest"} THEN {sg[1] : sg \in c.ret}
    ELSE {c.ret[i][1] : i \in (Len(c.arg.txn) + 1)..Len(c.ret)}

\* C3: after a key operation, every wallet it asked for keys or signatures
\* is registered and unlocked, and every key it returned or signed with is
\* held by an unlocked wallet.
C3_OnlyUnlockedConsulted ==
    last.op \in KeyOps =>
        /\ last.asked \subseteq UnlockedNames
        /\ last.res = "ok" => KeysUsed(last) \subseteq UnlockedKeys

\* get_public_keys answered while a locked wallet holding a key is registered
\* next to an unlocked one
C3_Witness ==
    /\ last.op = "get_public_keys"
    /\ last.res = "ok"
    /\ \E n \in DOMAIN wallets : wallets[n].locked /\ wallets[n].keys # {}
    /\ last.asked # {}

\* C4: get_public_keys fails NoWalletsAvailable exactly on an empty registry,
\* AllWalletsLocked exactly on a non-empty registry with no unlocked wallet,
\* and otherwise returns exactly the keys of the unlocked wallets.
C4_GetPublicKeys ==
    last.op = "get_public_keys" =>
        /\ last.res = "NoWalletsAvailable" <=> DOMAIN wallets = {}
        /\ last.res = "AllWalletsLocked" <=> (DOMAIN wallets # {} /\ UnlockedNames = {})
        /\ last.res = "ok" <=> UnlockedNames # {}
        /\ last.res = "ok" => last.ret = UnlockedKeys

\* get_public_keys on two registered wallets that the timeout had just locked
C4_Witness ==
    /\ last.op = "get_public_keys"
    /\ last.res = "AllWalletsLocked"
    /\ last.expired
    /\ Cardinality(DOMAIN wallets) = 2

\* C5 as stated: get_public_keys and get_my_signatures never succeed with an
\* empty result.
C5_NeverEmpty ==
    (last.op \in {"get_public_keys", "get_my_signatures"} /\ last.res = "ok")
        => last.ret # {}

\* C5 amended: get_public_keys and get_my_signatures succeed only when some
\* wallet is unlocked; a successful result is empty exactly when the unlocked
\* wallets hold no key.
C5_FailsWithoutUnlocked ==
    last.op \in {"get_public_keys", "get_my_signatures"} =>
        /\ last.res = "ok" => UnlockedNames # {}
        /\ UnlockedNames = {} => last.res \in {"NoWalletsAvailable", "AllWalletsLocked"}
        /\ (last.res = "ok" /\ last.ret = {}) <=> (UnlockedNames # {} /\ UnlockedKeys = {})

\* get_my_signatures succeeding with an empty set on an unlocked, empty wallet
C5_Witness ==
    /\ last.op = "get_my_signatures"
    /\ last.res = "ok"
    /\ last.ret = {}
    /\ UnlockedNames # {}

\* what a successful create(name) leaves behind
CreateDone ==
    (last.op = "create" /\ last.res = "ok") =>
        /\ last.name \in DOMAIN wallets
        /\ ~wallets[last.name].locked
        /\ last.name \in DOMAIN files
        /\ last.ret = {wallets[last.name].pw}
        /\ files[last.name].pw = wallets[last.name].pw

\* unlock(name, pw) of a wallet that create(name) made: already unlocked is
\* refused, the password create returned unlocks, any other is BadPassword
UnlockCreated ==
    (last'.op = "unlock" /\ last'.name \in DOMAIN issued) =>
        LET n == last'.name
        IN IF ~wallets[n].locked /\ ~last'.expired
           THEN last'.res = "WalletAlreadyUnlocked"
           ELSE IF last'.arg = issued[n]
           THEN last'.res = "ok" /\ ~wallets'[n].locked
           ELSE last'.res = "BadPassword" /\ wallets'[n].locked

\* C6: after a successful create(name) the wallet is registered and unlocked,
\* its file exists and holds the returned password; from then on unlock(name)
\* of the locked wallet succeeds with the returned password, leaving it
\* unlocked, and fails BadPassword with any other.
C6_CreateRoundTrip == [][CreateDone' /\ UnlockCreated]_vars

\* a created wallet, locked since, unlocked again with the returned password
C6_Witness ==
    /\ last.op = "unlock"
    /\ last.res = "ok"
    /\ last.name \in DOMAIN issued
    /\ last.arg = issued[last.name]
    /\ ~wallets[last.name].locked

\* the registry after the call's timeout evaluation and nothing else
AfterTimeoutOnly == wallets' = IF last'.expired THEN lock_all(wallets) ELSE wallets

\* C7: create(name) on a name whose file exists fails WalletAlreadyExists,
\* returns no password, leaves the file and the registered wallets as they
\* were (their lock state changing through the timeout only), registered or
\* not.
C7_CreateExisting ==
    [][(last'.op = "create" /\ last'.name \in DOMAIN files) =>
          /\ last'.res = "WalletAlreadyExists"
          /\ last'.ret = {}
          /\ files' = files
          /\ issued' = issued
          /\ order' = order
          /\ AfterTimeoutOnly]_vars

\* a second create of a name that create had made
C7_Witness ==
    /\ last.op = "create"
    /\ last.res = "WalletAlreadyExists"
    /\ last.name \in DOMAIN issued
    /\ last.name \in DOMAIN wallets

\* C8: lock(name) on an unregistered name fails WalletNonexistent and leaves
\* the registered names alone; on a registered wallet it succeeds and leaves
\* it locked, and when the wallet was locked already the wallet's lock() is
\* not called and the wallet is as before.
C8_LockIdempotent ==
    [][last'.op = "lock" =>
          LET n == last'.name
          IN IF n \notin DOMAIN wallets
             THEN /\ last'.res = "WalletNonexistent"
                  /\ DOMAIN wallets' = DOMAIN wallets
                  /\ order' = order
             ELSE /\ last'.res = "ok"
                  /\ wallets'[n].locked
                  /\ wallets[n].locked => (n \notin last'.locked /\ wallets'[n] = wallets[n])]_vars

\* lock(name) answered ok on a wallet that was locked already
C8_Witness ==
    /\ last.op = "lock"
    /\ last.res = "ok"
    /\ last.name \in DOMAIN wallets
    /\ wallets[last.name].locked
    /\ last.name \notin last.locked

\* C9: unlock(name, pw) of an unregistered name whose wallet file exists
\* registers the wallet; with the file's password it succeeds and the wallet
\* is unlocked, with another it fails BadPassword and the wallet is locked.
C9_UnlockAutoOpen ==
    [][(last'.op = "unlock" /\ last'.name \notin DOMAIN wallets
            /\ last'.name \in DOMAIN files) =>
          LET n == last'.name
          IN /\ n \in DOMAIN wallets'
             /\ IF last'.arg = files[n].pw
                THEN last'.res = "ok" /\ ~wallets'[n].locked
                ELSE last'.res = "BadPassword" /\ wallets'[n].locked]_vars

\* unlock with a wrong password that registered the wallet, locked
C9_Witness ==
    /\ last.op = "unlock"
    /\ last.res = "BadPassword"
    /\ last.name \notin last.reg
    /\ last.name \in DOMAIN wallets
    /\ wallets[last.name].locked

\* C10 as stated: unlock(name, pw) of an unregistered name that the
\* auto-open does not register fails WalletNonexistent and leaves the
\* registry as it was.
C10_UnlockUnopenable ==
    [][(last'.op = "unlock" /\ last'.name \notin DOMAIN wallets
            /\ last'.name \notin DOMAIN wallets') =>
          /\ last'.res = "WalletNonexistent"
          /\ order' = order
          /\ AfterTimeoutOnly]_vars

\* C10 amended: such an unlock fails WalletNonexistent when the name is a
\* valid file name without a wallet file and InvalidName when the name is
\* not a valid file name; the registry is as it was.
C10_UnlockUnopenableAmended ==
    [][(last'.op = "unlock" /\ last'.name \notin DOMAIN wallets
            /\ last'.name \notin DOMAIN wallets') =>
          /\ last'.res = IF valid_filename(last'.name)
                         THEN "WalletNonexistent" ELSE "InvalidName"
          /\ order' = order
          /\ AfterTimeoutOnly]_vars

\* unlock of a name that is no file name
C10_Witness ==
    /\ last.op = "unlock"
    /\ last.res = "InvalidName"
    /\ last.name \notin DOMAIN wallets

\* positions, in registration order, of the unlocked wallets that hold key
Holders(key) == {i \in 1..Len(order) : ~wallets[order[i]].locked /\ key \in wallets[order[i]].keys}

\* C11: sign_digest(d, K) returns exactly one signature, made by the first
\* unlocked wallet in registration order that holds K; the wallets after it
\* are not asked to sign; when no unlocked wallet holds K it fails
\* MissingPublicKey.
C11_FirstMatchWins ==
    last.op = "sign_digest" =>
        LET d == last.arg[1]
            key == last.arg[2]
            h == Holders(key)
        IN IF h = {}
           THEN last.res = "MissingPublicKey" /\ last.ret = {}
           ELSE LET first == CHOOSE i \in h : \A j \in h : i <= j
                IN /\ last.res = "ok"
                   /\ last.ret = w_try_sign_digest(wallets[order[first]], d, key)
                   /\ Cardinality(last.ret) = 1
                   /\ order[first] \in last.asked
                   /\ \A j \in 1..Len(order) : j > first => order[j] \notin last.asked

\* sign_digest answered while two unlocked wallets hold the key; the second
\* one in registration order was not asked
C11_Witness ==
    /\ last.op = "sign_digest"
    /\ last.res = "ok"
    /\ Cardinality(Holders(last.arg[2])) = 2
    /\ Len(order) = 2
    /\ order[2] \notin last.asked

\* C12: sign_transaction(tx, keys, id) is all or nothing.  When every
\* requested key is held by an unlocked wallet it returns tx's signatures
\* followed by exactly one new signature per requested key; when some
\* requested key is held by no unlocked wallet it fails MissingPublicKey,
\* names such a key and returns no transaction.
C12_AllOrNothing ==
    last.op = "sign_transaction" =>
        LET txn == last.arg.txn
            keys == last.arg.keys
            d == sig_digest(last.arg.id)
            unheld == {k \in keys : Holders(k) = {}}
        IN IF unheld = {}
           THEN /\ last.res = "ok"
                /\ Len(last.ret) = Len(txn) + Cardinality(keys)
                /\ SubSeq(last.ret, 1, Len(txn)) = txn
                /\ \A k \in keys :
                      Cardinality({i \in (Len(txn) + 1)..Len(last.ret) :
                                      last.ret[i] = Sig(k, d)}) = 1
           ELSE /\ last.res = "MissingPublicKey"
                /\ Cardinality(last.ret) = 1
                /\ last.ret \subseteq unheld

\* two keys requested, the first held by an unlocked wallet and the second
\* by none: the call failed naming the second
C12_Witness ==
    /\ last.op = "sign_transaction"
    /\ last.arg.keys = {"k1", "k2"}
    /\ Holders("k1") # {}
    /\ Holders("k2") = {}
    /\ last.res = "MissingPublicKey"
    /\ last.ret = {"k2"}

\* the step ends the initialize_lock of process m, by return or by exception
InitEnds(m) == pc[m] \in {"new", "created", "opened"} /\ pc'[m] \in {"ready", "failed"}

\* C13 as stated: when a process completed initialize_lock before a second
\* one began its own and has not been torn down since, the second one's
\* initialize_lock fails, the second holds no lock handle afterwards and the
\* first still holds its lock.
C13_SecondManagerFails ==
    [][\A m1, m2 \in Managers :
          (InitEnds(m2) /\ m1 \in began[m2] /\ pc[m1] = "ready") =>
              /\ pc'[m2] = "failed"
              /\ wallet_dir_lock'[m2] = 0
              /\ pc'[m1] = "ready"
              /\ HoldsLock(m1)'
              /\ ~HoldsLock(m2)']_vars

\* C16 as stated: under every interleaving of the steps of initialize_lock
\* and of teardown, at most one process that completed initialize_lock and
\* is not being torn down holds the directory lock, and the teardown of a
\* process whose initialize_lock failed leaves the marker file alone.
C16_AtMostOneHolder ==
    [][/\ Cardinality({m \in Ready : HoldsLock(m)}') <= 1
       /\ \A m \in Managers :
             (pc[m] = "failed" /\ pc'[m] = "closing") => lock_path' = lock_path]_vars

\* C14 as stated: every call other than lock_all evaluates the timeout first:
\* with the timeout enabled, a call made when the expiry has been reached
\* locks every unlocked wallet, and the call leaves the expiry at the clock
\* value plus the duration.
C14_CheckTimeoutFirst ==
    [][(IsCall(last') /\ last'.op # "lock_all" /\ timeout_time # TimepointMax) =>
          /\ now >= timeout_time =>
                \A n \in DOMAIN wallets : ~wallets[n].locked => n \in last'.locked
          /\ timeout_time' = Wrap(now + timeout')]_vars

\* what set_timeout(d) stores, failing or not
SetTimeoutStores ==
    last'.op = "set_timeout" =>
        /\ timeout' = last'.arg
        /\ timeout_time' = Wrap(now + last'.arg)
        /\ last'.res \in {"ok", "TimeoutOverflow"}

\* C15 as stated: set_timeout(d) stores d and the expiry now + d; it fails
\* TimeoutOverflow when now + d leaves the time point range or is not
\* positive, and succeeds otherwise.
C15_SetTimeoutOverflow ==
    [][/\ SetTimeoutStores
       /\ last'.op = "set_timeout" =>
             (last'.res = "TimeoutOverflow"
                 <=> (~InRange(now + last'.arg) \/ now + last'.arg <= 0))]_vars

\* C15 amended: set_timeout(d) stores d and the expiry now + d (wrapped),
\* also when it fails; it fails TimeoutOverflow when now + d leaves the time
\* point range, when now + d is not positive, or when d is negative, and
\* succeeds otherwise.
C15_SetTimeoutInvalid ==
    [][/\ SetTimeoutStores
       /\ last'.op = "set_timeout" =>
             (last'.res = "TimeoutOverflow"
                 <=> (~InRange(now + last'.arg) \/ now + last'.arg <= 0
                        \/ last'.arg < 0))]_vars

\* set_timeout refused a negative duration whose expiry is positive and in
\* range; the duration and the expiry are stored all the same
C15_Witness ==
    /\ last.op = "set_timeout"
    /\ last.arg < 0
    /\ last.res = "TimeoutOverflow"
    /\ timeout = last.arg
    /\ timeout_time = now + last.arg
    /\ timeout_time > 0

\* C17 as stated: with a clock that does not go back, no step other than
\* set_timeout lowers the expiry; lock_all, own_and_use_wallet and every
\* call made while the timeout is disabled leave it as it was.
C17_ExpiryMonotone ==
    [][(last'.op # "set_timeout" /\ now' >= now) =>
          /\ timeout_time' >= timeout_time
          /\ (last'.op \in {"lock_all", "own_and_use_wallet"}
                 \/ timeout_time = TimepointMax) => timeout_time' = timeout_time]_vars

\* the operations that change a wallet's key set
KeyChanges == {"import_key", "remove_key", "create_key"}

\* the registry as the call finds it once its timeout evaluation is done
AfterTimeout == IF last'.expired THEN lock_all(wallets) ELSE wallets

\* the key set of every wallet, registered or persisted, is as before
KeySetsUnchanged ==
    /\ DOMAIN wallets' = DOMAIN wallets
    /\ \A n \in DOMAIN wallets : wallets'[n].keys = wallets[n].keys
    /\ files' = files

\* C18: import_key, remove_key and create_key fail WalletNonexistent on an
\* unregistered name, WalletLocked on a locked wallet, checked in that order,
\* and remove_key fails BadPassword on a wrong password; a failing call
\* leaves every key set as it was, and a call changes no key set but that of
\* the named wallet, registered and unlocked.
C18_KeyChangesGuarded ==
    [][last'.op \in KeyChanges =>
          LET n == last'.name
              ws == AfterTimeout
          IN /\ n \notin DOMAIN ws => last'.res = "WalletNonexistent"
             /\ (n \in DOMAIN ws /\ ws[n].locked) => last'.res = "WalletLocked"
             /\ (n \in DOMAIN ws /\ ~ws[n].locked /\ last'.op = "remove_key"
                    /\ last'.arg[1] # ws[n].pw) => last'.res = "BadPassword"
             /\ last'.res # "ok" => KeySetsUnchanged
             /\ ~KeySetsUnchanged =>
                   /\ n \in DOMAIN ws
                   /\ ~ws[n].locked
                   /\ \A m \in DOMAIN wallets \ {n} : wallets'[m].keys = wallets[m].keys]_vars

\* remove_key refused for a wrong password on an unlocked wallet that holds
\* the key, which it still holds
C18_Witness ==
    /\ last.op = "remove_key"
    /\ last.res = "BadPassword"
    /\ last.name \in DOMAIN wallets
    /\ ~wallets[last.name].locked
    /\ last.arg[2] \in wallets[last.name].keys

\* the names that the step moved to unlocked from locked or unregistered
NewlyUnlocked ==
    {n \in DOMAIN wallets' :
        ~wallets'[n].locked /\ (n \in DOMAIN wallets => wallets[n].locked)}

\* a successful open(name) leaves the entry locked, with the file's content
OpenLeavesLocked ==
    (last'.op = "open" /\ last'.res = "ok") =>
        /\ wallets'[last'.name].locked
        /\ FileOf(wallets'[last'.name]) = files[last'.name]

\* C19 as stated: a name becomes unlocked only through a successful
\* unlock(name, password) with the wallet's password or a successful
\* create(name); a successful open(name) leaves the entry locked.
C19_UnlockedGrowsByPassword ==
    [][/\ \A n \in NewlyUnlocked :
             /\ last'.res = "ok"
             /\ last'.name = n
             /\ \/ last'.op = "unlock" /\ last'.arg = wallets'[n].pw
                \/ last'.op = "create"
       /\ OpenLeavesLocked]_vars

\* C19 amended: a name becomes unlocked only through a successful
\* unlock(name, password) with the wallet's password, a successful
\* create(name), or a successful own_and_use_wallet(name, w) whose wallet w
\* is unlocked when handed over; a successful open(name) leaves the entry
\* locked.
C19_UnlockedGrowsByPasswordOrOwner ==
    [][/\ \A n \in NewlyUnlocked :
             /\ last'.res = "ok"
             /\ last'.name = n
             /\ \/ last'.op = "unlock" /\ last'.arg = wallets'[n].pw
                \/ last'.op = "create"
                \/ last'.op = "own_and_use_wallet" /\ n \notin DOMAIN wallets
       /\ OpenLeavesLocked]_vars

\* own_and_use_wallet registered a wallet that is unlocked, next to a
\* registered wallet that open had left locked
C19_Witness ==
    /\ last.op = "own_and_use_wallet"
    /\ last.res = "ok"
    /\ ~wallets[last.name].locked
    /\ \E n \in DOMAIN wallets : n # last.name /\ wallets[n].locked

\* C20 as stated: once a session with a finite timeout has expired through
\* inactivity, no operation returns a key or a signature from a wallet that
\* was unlocked before the gap, unless the wallet has been unlocked again
\* since, whatever calls are made after the gap.
C20_NoKeysFromExpiredSession ==
    (last.op \in KeyOps /\ last.res = "ok") =>
        \A n \in last.asked \cap last.stale : wallets[n].keys \cap KeysUsed(last) = {}

====
